---- MODULE Spec2Model ----
(***************************************************************************)
(* Board-state and move-application engine of sgf-to-image.                *)
(*                                                                         *)
(* Board objects live on a heap (a sequence of objects, a reference is an  *)
(* index), so that "returns a new Board, the receiver is not modified" is  *)
(* a property of the operations and not of the notation.                   *)
(***************************************************************************)
EXTENDS Integers, Sequences, FiniteSets, TLC

VARIABLES
    heap,               \* Board objects created so far: [size, grid], grid[y][x]
    call,               \* the last direct call of a Board method and its outcome
    mode,               \* "board": Board used on its own; "replay": applyMoves
    moves,              \* applyMoves argument: the move list (revealed so far)
    moveRange,          \* applyMoves argument: <<>> (undefined) or <<start, end>>
    moveIndex,          \* applyMoves argument: <<>> (undefined) or <<K>>
    done,               \* number of elements of selectedMoves the loop has processed
    currentBoard,       \* applyMoves local: reference of the current board
    appliedMoves,       \* applyMoves local
    overwrittenLabels,  \* applyMoves local
    movePositionMap,    \* applyMoves local: position key -> move number
    raised,             \* TRUE once an error has escaped applyMoves
    caught,             \* the error messages the catch clause has swallowed
    step,               \* the last loop iteration: the move and the state before it
    labels,             \* result of generateMoveLabels on appliedMoves
    options,            \* convertSgfToImage argument: the moveRange and move options
    returned,           \* overwrittenLabels of the result of convertSgfToImage
    renderer,           \* a DiagramRenderer: its initialized field and the
                        \* initialize() calls waiting on CanvasFactory.initialize()
    pc                  \* "loop" in a replay, "validate" and "rejected" in a
                        \* conversion, "idle" otherwise

vars == <<heap, call, mode, moves, moveRange, moveIndex, done, currentBoard,
          appliedMoves, overwrittenLabels, movePositionMap, raised, caught, step,
          labels, options, returned, renderer, pc>>

replayVars == <<moves, moveRange, moveIndex, done, currentBoard, appliedMoves,
                overwrittenLabels, movePositionMap, raised, caught, step, labels,
                options, returned, renderer, pc>>

---------------------------------------------------------------------------
(* Bounds *)

MaxSize == 2        \* board sizes 1..MaxSize
MaxWork == 6        \* board size + length of the move list
MaxStones == 4      \* stones on the grid a Board is constructed from

MaxBoardSize == 25  \* Board.constructor: a size above 25 is rejected

---------------------------------------------------------------------------
(* types.ts: StoneColor, Position, Move *)

StoneColor == {"black", "white", "empty"}

Null == [null |-> TRUE]

Pos(x, y) == [x |-> x, y |-> y]

\* `${x},${y}`: the string key of a position; distinct positions, distinct keys
PosKey(position) == <<position.x, position.y>>

\* error messages of Board.placeStone, without the coordinates
ErrInvalidPosition == "Invalid position"
ErrOccupied == "Position already occupied"
ErrEmptyStone == "Cannot place empty stone"
ErrSuicide == "Suicide move not allowed"

---------------------------------------------------------------------------
(* Board *)

ErrInvalidSize == "Invalid board size"

\* mutant: the upper bound itself is rejected
ValidSizeExclusive(size) == ~(size < 1 \/ size >= MaxBoardSize)

\* the constructor accepts the size: not (size < 1 || size > 25)
ValidSize(size) == ~(size < 1 \/ size > MaxBoardSize)

\* Array(size).fill(null).map(() => Array(size).fill('empty'))
EmptyGrid(size) == [y \in 0..(size - 1) |-> [x \in 0..(size - 1) |-> "empty"]]

IsValidPosition(b, position) ==
    /\ position.x >= 0
    /\ position.x < b.size
    /\ position.y >= 0
    /\ position.y < b.size

\* new Board(size), Board.empty(size): [heap, ok, board, error]
NewBoard(h, size) ==
    IF ~ValidSize(size)
    THEN [heap |-> h, ok |-> FALSE, board |-> 0, error |-> ErrInvalidSize]
    ELSE [heap |-> Append(h, [size |-> size, grid |-> EmptyGrid(size)]),
          ok |-> TRUE, board |-> Len(h) + 1, error |-> "none"]

GetStone(b, position) ==
    IF ~IsValidPosition(b, position) THEN "empty"
    ELSE b.grid[position.y][position.x]

\* up, down, left, right, clipped to the board
Directions == <<Pos(0, -1), Pos(0, 1), Pos(-1, 0), Pos(1, 0)>>

\* mutant: the left neighbour is missing
GetNeighborsThree(b, position) ==
    LET all == <<Pos(position.x, position.y - 1), Pos(position.x, position.y + 1),
                 Pos(position.x + 1, position.y)>>
    IN SelectSeq(all, LAMBDA n : IsValidPosition(b, n))

GetNeighbors(b, position) ==
    LET all == [i \in 1..4 |->
                  Pos(position.x + Directions[i].x, position.y + Directions[i].y)]
    IN SelectSeq(all, LAMBDA n : IsValidPosition(b, n))

RECURSIVE GroupLoop(_, _, _, _, _)
GroupLoop(b, stoneColor, stack, visited, group) ==
    IF stack = <<>> THEN group
    ELSE LET current == stack[Len(stack)]
             rest == SubSeq(stack, 1, Len(stack) - 1)
             key == PosKey(current)
         IN IF key \in visited
            THEN GroupLoop(b, stoneColor, rest, visited, group)
            ELSE LET visited2 == visited \cup {key}
                 IN IF GetStone(b, current) = stoneColor
                    THEN GroupLoop(b, stoneColor,
                                   rest \o SelectSeq(GetNeighbors(b, current),
                                                     LAMBDA n : PosKey(n) \notin visited2),
                                   visited2, Append(group, current))
                    ELSE GroupLoop(b, stoneColor, rest, visited2, group)

\* the number of iterations of the while loop of getGroup
RECURSIVE GroupLoopIterations(_, _, _, _, _)
GroupLoopIterations(b, stoneColor, stack, visited, n) ==
    IF stack = <<>> THEN n
    ELSE LET current == stack[Len(stack)]
             rest == SubSeq(stack, 1, Len(stack) - 1)
             key == PosKey(current)
         IN IF key \in visited
            THEN GroupLoopIterations(b, stoneColor, rest, visited, n + 1)
            ELSE LET visited2 == visited \cup {key}
                 IN IF GetStone(b, current) = stoneColor
                    THEN GroupLoopIterations(b, stoneColor,
                             rest \o SelectSeq(GetNeighbors(b, current),
                                               LAMBDA m : PosKey(m) \notin visited2),
                             visited2, n + 1)
                    ELSE GroupLoopIterations(b, stoneColor, rest, visited2, n + 1)

GetGroupIterations(b, position) ==
    LET stoneColor == GetStone(b, position)
    IN IF stoneColor = "empty" THEN 0
       ELSE GroupLoopIterations(b, stoneColor, <<position>>, {}, 0)

\* mutant: only the stone itself, no flood fill
GetGroupSingle(b, position) ==
    IF GetStone(b, position) = "empty" THEN <<>> ELSE <<position>>

GetGroup(b, position) ==
    LET stoneColor == GetStone(b, position)
    IN IF stoneColor = "empty" THEN <<>>
       ELSE GroupLoop(b, stoneColor, <<position>>, {}, <<>>)

\* mutant: every group is taken to have a liberty
HasLibertiesAlways(b, group) == TRUE

HasLiberties(b, group) ==
    LET liberties == {PosKey(n) : n \in
                        {m \in UNION {{GetNeighbors(b, group[i])[j] :
                                          j \in DOMAIN GetNeighbors(b, group[i])} :
                                       i \in DOMAIN group} :
                           GetStone(b, m) = "empty"}}
    IN Cardinality(liberties) > 0

\* mutant: the new grid is the receiver's grid itself, not a copy of it
RemoveStonesInPlace(h, this, positions) ==
    LET b == h[this]
        newGrid == [y \in 0..(b.size - 1) |-> [x \in 0..(b.size - 1) |->
                      IF \E i \in DOMAIN positions :
                            /\ IsValidPosition(b, positions[i])
                            /\ positions[i] = Pos(x, y)
                      THEN "empty" ELSE b.grid[y][x]]]
        h1 == [h EXCEPT ![this].grid = newGrid]
    IN [heap |-> Append(h1, [size |-> b.size, grid |-> newGrid]), board |-> Len(h) + 1]

\* mutant: the row and the column index are swapped when a cell is emptied
RemoveStonesTransposed(h, this, positions) ==
    LET b == h[this]
        newGrid == [y \in 0..(b.size - 1) |-> [x \in 0..(b.size - 1) |->
                      IF \E i \in DOMAIN positions :
                            /\ IsValidPosition(b, positions[i])
                            /\ positions[i] = Pos(y, x)
                      THEN "empty" ELSE b.grid[y][x]]]
    IN [heap |-> Append(h, [size |-> b.size, grid |-> newGrid]), board |-> Len(h) + 1]

\* removeStones: a copy of the grid with the listed valid positions emptied,
\* wrapped in a new Board object
RemoveStones(h, this, positions) ==
    LET b == h[this]
        newGrid == [y \in 0..(b.size - 1) |-> [x \in 0..(b.size - 1) |->
                      IF \E i \in DOMAIN positions :
                            /\ IsValidPosition(b, positions[i])
                            /\ positions[i] = Pos(x, y)
                      THEN "empty" ELSE b.grid[y][x]]]
    IN [heap |-> Append(h, [size |-> b.size, grid |-> newGrid]), board |-> Len(h) + 1]

Throw(h, message) == [heap |-> h, ok |-> FALSE, board |-> 0, error |-> message]

\* the for loop over the neighbours of the placed stone; st = [heap, board] holds
\* the heap and the reference boardAfterCaptures
RECURSIVE CaptureLoop(_, _, _, _)
CaptureLoop(st, neighbors, i, opponentColor) ==
    IF i > Len(neighbors) THEN st
    ELSE LET cur == st.heap[st.board]
             neighbor == neighbors[i]
         IN IF GetStone(cur, neighbor) = opponentColor
            THEN LET group == GetGroup(cur, neighbor)
                 IN IF ~HasLiberties(cur, group)
                    THEN CaptureLoop(RemoveStones(st.heap, st.board, group),
                                     neighbors, i + 1, opponentColor)
                    ELSE CaptureLoop(st, neighbors, i + 1, opponentColor)
            ELSE CaptureLoop(st, neighbors, i + 1, opponentColor)

\* mutant: the suicide check runs on the board before the captures are resolved
PlaceStoneSuicideFirst(h, this, position, color) ==
    LET b == h[this]
    IN IF ~IsValidPosition(b, position) THEN Throw(h, ErrInvalidPosition)
       ELSE IF GetStone(b, position) # "empty" THEN Throw(h, ErrOccupied)
       ELSE IF color = "empty" THEN Throw(h, ErrEmptyStone)
       ELSE LET newGrid == [b.grid EXCEPT ![position.y][position.x] = color]
                h1 == Append(h, [size |-> b.size, grid |-> newGrid])
                opponentColor == IF color = "black" THEN "white" ELSE "black"
                after == CaptureLoop([heap |-> h1, board |-> Len(h1)],
                                     GetNeighbors(b, position), 1, opponentColor)
            IN IF ~HasLiberties(h1[Len(h1)], GetGroup(h1[Len(h1)], position))
               THEN Throw(after.heap, ErrSuicide)
               ELSE [heap |-> after.heap, ok |-> TRUE, board |-> after.board,
                     error |-> "none"]

\* mutant: no suicide check
PlaceStoneNoSuicide(h, this, position, color) ==
    LET b == h[this]
    IN IF ~IsValidPosition(b, position) THEN Throw(h, ErrInvalidPosition)
       ELSE IF GetStone(b, position) # "empty" THEN Throw(h, ErrOccupied)
       ELSE IF color = "empty" THEN Throw(h, ErrEmptyStone)
       ELSE LET newGrid == [b.grid EXCEPT ![position.y][position.x] = color]
                h1 == Append(h, [size |-> b.size, grid |-> newGrid])
                opponentColor == IF color = "black" THEN "white" ELSE "black"
                after == CaptureLoop([heap |-> h1, board |-> Len(h1)],
                                     GetNeighbors(b, position), 1, opponentColor)
            IN [heap |-> after.heap, ok |-> TRUE, board |-> after.board,
                error |-> "none"]

\* mutant: the stone is written into the receiver's grid (no copy of the rows)
PlaceStoneInPlace(h, this, position, color) ==
    LET b == h[this]
    IN IF ~IsValidPosition(b, position) THEN Throw(h, ErrInvalidPosition)
       ELSE IF GetStone(b, position) # "empty" THEN Throw(h, ErrOccupied)
       ELSE IF color = "empty" THEN Throw(h, ErrEmptyStone)
       ELSE LET newGrid == [b.grid EXCEPT ![position.y][position.x] = color]
                h0 == [h EXCEPT ![this].grid = newGrid]
                h1 == Append(h0, [size |-> b.size, grid |-> newGrid])
                opponentColor == IF color = "black" THEN "white" ELSE "black"
                after == CaptureLoop([heap |-> h1, board |-> Len(h1)],
                                     GetNeighbors(b, position), 1, opponentColor)
                boardAfterCaptures == after.heap[after.board]
                placedGroup == GetGroup(boardAfterCaptures, position)
            IN IF ~HasLiberties(boardAfterCaptures, placedGroup)
               THEN Throw(after.heap, ErrSuicide)
               ELSE [heap |-> after.heap, ok |-> TRUE, board |-> after.board,
                     error |-> "none"]

\* mutant: the colour is not checked
PlaceStoneNoColourCheck(h, this, position, color) ==
    LET b == h[this]
    IN IF ~IsValidPosition(b, position) THEN Throw(h, ErrInvalidPosition)
       ELSE IF GetStone(b, position) # "empty" THEN Throw(h, ErrOccupied)
       ELSE LET newGrid == [b.grid EXCEPT ![position.y][position.x] = color]
                h1 == Append(h, [size |-> b.size, grid |-> newGrid])
                opponentColor == IF color = "black" THEN "white" ELSE "black"
                after == CaptureLoop([heap |-> h1, board |-> Len(h1)],
                                     GetNeighbors(b, position), 1, opponentColor)
                boardAfterCaptures == after.heap[after.board]
                placedGroup == GetGroup(boardAfterCaptures, position)
            IN IF ~HasLiberties(boardAfterCaptures, placedGroup)
               THEN Throw(after.heap, ErrSuicide)
               ELSE [heap |-> after.heap, ok |-> TRUE, board |-> after.board,
                     error |-> "none"]

\* placeStone: [heap, ok, board, error]; board is the reference of the returned
\* Board when ok, error the message thrown otherwise
PlaceStone(h, this, position, color) ==
    LET b == h[this]
    IN IF ~IsValidPosition(b, position) THEN Throw(h, ErrInvalidPosition)
       ELSE IF GetStone(b, position) # "empty" THEN Throw(h, ErrOccupied)
       ELSE IF color = "empty" THEN Throw(h, ErrEmptyStone)
       ELSE LET newGrid == [b.grid EXCEPT ![position.y][position.x] = color]
                h1 == Append(h, [size |-> b.size, grid |-> newGrid])
                opponentColor == IF color = "black" THEN "white" ELSE "black"
                after == CaptureLoop([heap |-> h1, board |-> Len(h1)],
                                     GetNeighbors(b, position), 1, opponentColor)
                boardAfterCaptures == after.heap[after.board]
                placedGroup == GetGroup(boardAfterCaptures, position)
            IN IF ~HasLiberties(boardAfterCaptures, placedGroup)
               THEN Throw(after.heap, ErrSuicide)
               ELSE [heap |-> after.heap, ok |-> TRUE, board |-> after.board,
                     error |-> "none"]

---------------------------------------------------------------------------
(* Board used on its own: one object built by the constructor from a grid,  *)
(* then one call of placeStone or removeStones on it.                       *)

NoCall == [op |-> "none"]
NoStep == [kind |-> "none"]
NoOptions == [given |-> FALSE]
NoRenderer == [made |-> FALSE]

\* the board cells and two positions outside the board
InputPositions(size) ==
    {Pos(x, y) : x \in 0..(size - 1), y \in 0..(size - 1)}
        \cup {Pos(-1, 0), Pos(0, size)}

\* the variables of applyMoves while no replay runs
ReplayIdle ==
    /\ moves = <<>>
    /\ moveRange = <<>>
    /\ moveIndex = <<>>
    /\ done = 0
    /\ currentBoard = 0
    /\ appliedMoves = <<>>
    /\ overwrittenLabels = <<>>
    /\ movePositionMap = <<>>
    /\ raised = FALSE
    /\ caught = {}
    /\ step = NoStep
    /\ labels = <<>>
    /\ options = NoOptions
    /\ returned = <<>>
    /\ renderer = NoRenderer
    /\ pc = "idle"

StoneCount(size, grid) ==
    Cardinality({c \in (0..(size - 1)) \X (0..(size - 1)) : grid[c[2]][c[1]] # "empty"})

\* new Board(size, grid) for 1 <= size <= MaxSize and every grid of that size
\* holding at most MaxStones stones
InitBoard ==
    /\ mode = "board"
    /\ \E size \in 1..MaxSize :
         \E grid \in [0..(size - 1) -> [0..(size - 1) -> StoneColor]] :
            /\ ValidSize(size)
            /\ StoneCount(size, grid) <= MaxStones
            /\ heap = <<[size |-> size, grid |-> grid]>>
    /\ call = NoCall
    /\ ReplayIdle

CallPlaceStone ==
    /\ mode = "board"
    /\ call = NoCall
    /\ \E this \in DOMAIN heap :
         \E position \in InputPositions(heap[this].size), color \in StoneColor :
            \E r \in {PlaceStone(heap, this, position, color)} :
               /\ heap' = r.heap
               /\ call' = [op |-> "placeStone", this |-> this, before |-> heap,
                           position |-> position, color |-> color,
                           positions |-> <<>>, ok |-> r.ok, error |-> r.error,
                           board |-> r.board]
    /\ UNCHANGED <<mode, replayVars>>

CallRemoveStones ==
    /\ mode = "board"
    /\ call = NoCall
    /\ \E this \in DOMAIN heap :
         \E p \in InputPositions(heap[this].size) :
            \E positions \in {<<p>>, GetGroup(heap[this], p)} :
               \E r \in {RemoveStones(heap, this, positions)} :
                  /\ heap' = r.heap
                  /\ call' = [op |-> "removeStones", this |-> this, before |-> heap,
                              position |-> p, color |-> "empty",
                              positions |-> positions, ok |-> TRUE,
                              error |-> "none", board |-> r.board]
    /\ UNCHANGED <<mode, replayVars>>

NextBoard == CallPlaceStone \/ CallRemoveStones

\* a game played by direct calls: board = board.placeStone(position, color),
\* started on Board.empty(size); a failing call leaves the caller's board, and
\* the boards the caller no longer holds are dropped from the heap
InitPlacements ==
    /\ mode = "placements"
    /\ \E size \in 1..MaxSize :
         /\ ValidSize(size)
         /\ heap = <<[size |-> size, grid |-> EmptyGrid(size)]>>
    /\ call = NoCall
    /\ ReplayIdle

\* the caller makes at most this many calls
PlacementLimit(size) == MaxWork - size

PlaceNext ==
    /\ mode = "placements"
    /\ done < PlacementLimit(heap[1].size)
    /\ \E position \in InputPositions(heap[1].size), color \in StoneColor :
          \E r \in {PlaceStone(heap, 1, position, color)} :
             /\ heap' = IF r.ok THEN <<r.heap[r.board]>> ELSE heap
             /\ call' = [op |-> "placeStone", this |-> 1, before |-> heap,
                         position |-> position, color |-> color,
                         positions |-> <<>>, ok |-> r.ok, error |-> r.error,
                         board |-> 1]
    /\ done' = done + 1
    /\ UNCHANGED <<mode, moves, moveRange, moveIndex, currentBoard, appliedMoves,
                   overwrittenLabels, movePositionMap, raised, caught, step, labels,
                   options, returned, renderer, pc>>

SpecPlacements == InitPlacements /\ [][PlaceNext]_vars

\* getGroup called on the constructed board, for a cell or a position outside
CallGetGroup ==
    /\ mode = "board"
    /\ call = NoCall
    /\ \E this \in DOMAIN heap :
         \E position \in InputPositions(heap[this].size) :
            call' = [op |-> "getGroup", this |-> this, before |-> heap,
                     position |-> position,
                     result |-> GetGroup(heap[this], position),
                     iterations |-> GetGroupIterations(heap[this], position)]
    /\ UNCHANGED <<heap, mode, replayVars>>

SpecGroup == InitBoard /\ [][CallGetGroup]_vars

SpecBoard == InitBoard /\ [][NextBoard]_vars

---------------------------------------------------------------------------
(* The constructor called on its own, with integer sizes from below 1 to     *)
(* above 25, at most MaxBoards times.                                       *)

MaxBoards == 2      \* constructor calls in a run

InputSizes == (-1)..(MaxBoardSize + 2)

InitConstruct ==
    /\ mode = "construct"
    /\ heap = <<>>
    /\ call = NoCall
    /\ ReplayIdle

CallNewBoard ==
    /\ mode = "construct"
    /\ (IF call = NoCall THEN 0 ELSE call.calls) < MaxBoards
    /\ \E size \in InputSizes :
          \E r \in {NewBoard(heap, size)} :
             /\ heap' = r.heap
             /\ call' = [op |-> "new", size |-> size, before |-> heap, ok |-> r.ok,
                         error |-> r.error, board |-> r.board,
                         calls |-> IF call = NoCall THEN 1 ELSE call.calls + 1]
    /\ UNCHANGED <<mode, replayVars>>

SpecConstruct == InitConstruct /\ [][CallNewBoard]_vars

---------------------------------------------------------------------------
(* applyMoves.ts *)

IsPass(move) == move.position = Null

\* Array.prototype.slice(0, end): a negative end counts from the end of the array
SliceTo(array, end) ==
    LET len == Len(array)
        final == IF end < 0 THEN (IF len + end > 0 THEN len + end ELSE 0)
                 ELSE (IF end < len THEN end ELSE len)
    IN SubSeq(array, 1, final)

\* mutant: the index limit is applied to the list before the range filter
SelectMovesTruncatesFirst(ms, range, index) ==
    LET limited == IF index # <<>> THEN SliceTo(ms, index[1]) ELSE ms
    IN IF range # <<>>
       THEN SelectSeq(limited, LAMBDA move : /\ move.moveNumber >= range[1]
                                              /\ move.moveNumber <= range[2])
       ELSE limited

\* mutant: a range [M,N] selects every move numbered up to N
SelectMovesFromOne(ms, range, index) ==
    LET filtered == IF range # <<>>
                    THEN SelectSeq(ms, LAMBDA move : move.moveNumber <= range[2])
                    ELSE ms
    IN IF index # <<>>
       THEN SliceTo(filtered, index[1])
       ELSE filtered

\* selectMoves: the range filter first, then slice(0, moveIndex)
SelectMoves(ms, range, index) ==
    LET filtered == IF range # <<>>
                    THEN SelectSeq(ms, LAMBDA move : /\ move.moveNumber >= range[1]
                                                      /\ move.moveNumber <= range[2])
                    ELSE ms
    IN IF index # <<>>
       THEN SliceTo(filtered, index[1])
       ELSE filtered

\* Map.set and Map.delete on a map held as a function from keys
MapSet(map, key, value) == [k \in DOMAIN map \cup {key} |->
                               IF k = key THEN value ELSE map[k]]
MapDelete(map, key) == [k \in DOMAIN map \ {key} |-> map[k]]
EmptyMap == [k \in {} |-> 0]

\* mutant: the row loop stops one row early
FindCapturedPositionsShort(beforeBoard, afterBoard) ==
    LET n == beforeBoard.size
        all == [i \in 1..(n * (n - 1)) |-> Pos((i - 1) % n, (i - 1) \div n)]
    IN SelectSeq(all, LAMBDA pos : /\ GetStone(beforeBoard, pos) # "empty"
                                    /\ GetStone(afterBoard, pos) = "empty")

\* findCapturedPositions: row by row, the cells with a stone before and none after
FindCapturedPositions(beforeBoard, afterBoard) ==
    LET n == beforeBoard.size
        all == [i \in 1..(n * n) |-> Pos((i - 1) % n, (i - 1) \div n)]
    IN SelectSeq(all, LAMBDA pos : /\ GetStone(beforeBoard, pos) # "empty"
                                    /\ GetStone(afterBoard, pos) = "empty")

RECURSIVE CapturedLoop(_, _, _, _)
RECURSIVE CapturedLoopKeepsEntries(_, _, _, _)

\* mutant: the entry of a captured cell stays in the ownership map
CapturedLoopKeepsEntries(st, capturedPositions, i, move) ==
    IF i > Len(capturedPositions) THEN st
    ELSE LET capturedPos == capturedPositions[i]
             capturedPosKey == PosKey(capturedPos)
         IN IF capturedPosKey \in DOMAIN st.map
            THEN CapturedLoopKeepsEntries(
                   [labels |-> Append(st.labels,
                                      [originalMove |-> st.map[capturedPosKey],
                                       overwrittenByMove |-> move.moveNumber,
                                       position |-> capturedPos]),
                    map |-> st.map],
                   capturedPositions, i + 1, move)
            ELSE CapturedLoopKeepsEntries(st, capturedPositions, i + 1, move)

\* the loop over capturedPositions; st = [labels, map]
CapturedLoop(st, capturedPositions, i, move) ==
    IF i > Len(capturedPositions) THEN st
    ELSE LET capturedPos == capturedPositions[i]
             capturedPosKey == PosKey(capturedPos)
         IN IF capturedPosKey \in DOMAIN st.map
            THEN CapturedLoop(
                   [labels |-> Append(st.labels,
                                      [originalMove |-> st.map[capturedPosKey],
                                       overwrittenByMove |-> move.moveNumber,
                                       position |-> capturedPos]),
                    map |-> MapDelete(st.map, capturedPosKey)],
                   capturedPositions, i + 1, move)
            ELSE CapturedLoop(st, capturedPositions, i + 1, move)

\* mutant: the suicide error is not caught
CatchesSuicideNot(error) == error # ErrSuicide

\* the catch clause of the loop body catches every error
Catches(error) == TRUE

\* mutant: a pass is skipped like an illegal move
PassBodyDropped(st, move) == st

\* the pass branch of the loop body: appliedMoves.push(move); continue
PassBody(st, move) == [st EXCEPT !.appliedMoves = Append(st.appliedMoves, move)]

\* mutant: a move whose placement failed is pushed onto appliedMoves all the same
LoopBodyAppendsSkipped(st, move) ==
    IF IsPass(move)
    THEN PassBody(st, move)
    ELSE LET positionKey == PosKey(move.position)
             labels1 == IF positionKey \in DOMAIN st.movePositionMap
                        THEN Append(st.overwrittenLabels,
                                    [originalMove |-> st.movePositionMap[positionKey],
                                     overwrittenByMove |-> move.moveNumber,
                                     position |-> move.position])
                        ELSE st.overwrittenLabels
             boardBeforeMove == st.currentBoard
             r == PlaceStone(st.heap, st.currentBoard, move.position, move.color)
         IN IF ~r.ok
            THEN [st EXCEPT !.heap = r.heap,
                            !.appliedMoves = Append(st.appliedMoves, move),
                            !.overwrittenLabels = labels1,
                            !.raised = ~Catches(r.error),
                            !.caught = IF Catches(r.error) THEN st.caught \cup {r.error}
                                       ELSE st.caught]
            ELSE LET map1 == MapSet(st.movePositionMap, positionKey, move.moveNumber)
                     capturedPositions ==
                        FindCapturedPositions(r.heap[boardBeforeMove], r.heap[r.board])
                     c == CapturedLoop([labels |-> labels1, map |-> map1],
                                       capturedPositions, 1, move)
                 IN [st EXCEPT !.heap = r.heap,
                               !.currentBoard = r.board,
                               !.appliedMoves = Append(st.appliedMoves, move),
                               !.overwrittenLabels = c.labels,
                               !.movePositionMap = c.map]

\* mutant: the ownership map is set before the placement is tried
LoopBodyMapsBeforeTry(st, move) ==
    IF IsPass(move)
    THEN PassBody(st, move)
    ELSE LET positionKey == PosKey(move.position)
             labels1 == IF positionKey \in DOMAIN st.movePositionMap
                        THEN Append(st.overwrittenLabels,
                                    [originalMove |-> st.movePositionMap[positionKey],
                                     overwrittenByMove |-> move.moveNumber,
                                     position |-> move.position])
                        ELSE st.overwrittenLabels
             boardBeforeMove == st.currentBoard
             map1 == MapSet(st.movePositionMap, positionKey, move.moveNumber)
             r == PlaceStone(st.heap, st.currentBoard, move.position, move.color)
         IN IF ~r.ok
            THEN [st EXCEPT !.heap = r.heap,
                            !.overwrittenLabels = labels1,
                            !.movePositionMap = map1,
                            !.raised = ~Catches(r.error),
                            !.caught = IF Catches(r.error) THEN st.caught \cup {r.error}
                                       ELSE st.caught]
            ELSE LET capturedPositions ==
                        FindCapturedPositions(r.heap[boardBeforeMove], r.heap[r.board])
                     c == CapturedLoop([labels |-> labels1, map |-> map1],
                                       capturedPositions, 1, move)
                 IN [st EXCEPT !.heap = r.heap,
                               !.currentBoard = r.board,
                               !.appliedMoves = Append(st.appliedMoves, move),
                               !.overwrittenLabels = c.labels,
                               !.movePositionMap = c.map]

\* one iteration of the for loop of applyMoves on the state
\* st = [heap, currentBoard, appliedMoves, overwrittenLabels, movePositionMap,
\*       raised, caught]
LoopBody(st, move) ==
    IF IsPass(move)
    THEN PassBody(st, move)
    ELSE LET positionKey == PosKey(move.position)
             labels1 == IF positionKey \in DOMAIN st.movePositionMap
                        THEN Append(st.overwrittenLabels,
                                    [originalMove |-> st.movePositionMap[positionKey],
                                     overwrittenByMove |-> move.moveNumber,
                                     position |-> move.position])
                        ELSE st.overwrittenLabels
             boardBeforeMove == st.currentBoard
             r == PlaceStone(st.heap, st.currentBoard, move.position, move.color)
         IN IF ~r.ok
            THEN [st EXCEPT !.heap = r.heap,
                            !.overwrittenLabels = labels1,
                            !.raised = ~Catches(r.error),
                            !.caught = IF Catches(r.error) THEN st.caught \cup {r.error}
                                       ELSE st.caught]
            ELSE LET map1 == MapSet(st.movePositionMap, positionKey, move.moveNumber)
                     capturedPositions ==
                        FindCapturedPositions(r.heap[boardBeforeMove], r.heap[r.board])
                     c == CapturedLoop([labels |-> labels1, map |-> map1],
                                       capturedPositions, 1, move)
                 IN [st EXCEPT !.heap = r.heap,
                               !.currentBoard = r.board,
                               !.appliedMoves = Append(st.appliedMoves, move),
                               !.overwrittenLabels = c.labels,
                               !.movePositionMap = c.map]

RECURSIVE LoopFrom(_, _, _)
LoopFrom(st, selected, i) ==
    IF i > Len(selected) \/ st.raised THEN st
    ELSE LoopFrom(LoopBody(st, selected[i]), selected, i + 1)

\* applyMoves(board, moves, moveRange, moveIndex) on the heap h: the loop on
\* the selected moves, from fresh locals
ApplyMoves(h, board, ms, range, index) ==
    LoopFrom([heap |-> h, currentBoard |-> board, appliedMoves |-> <<>>,
              overwrittenLabels |-> <<>>, movePositionMap |-> << >>,
              raised |-> FALSE, caught |-> {}],
             SelectMoves(ms, range, index), 1)

\* the for loop of applyMovesWithSnapshots: for (let i = ...; i <= endIndex; i++)
RECURSIVE SnapshotLoop(_, _, _, _, _, _)
SnapshotLoop(h, board, ms, endIndex, i, snapshots) ==
    IF ~(i <= endIndex) THEN [heap |-> h, snapshots |-> snapshots]
    ELSE LET result == ApplyMoves(h, board, ms, <<>>, <<i>>)
         IN SnapshotLoop(result.heap, board, ms, endIndex, i + 1,
                         Append(snapshots,
                                [board |-> result.currentBoard,
                                 appliedMoves |-> result.appliedMoves,
                                 overwrittenLabels |-> result.overwrittenLabels]))

\* mutant: the loop stops one step early
ApplyMovesWithSnapshotsShort(h, board, ms, maxIndex) ==
    LET min == IF maxIndex[1] < Len(ms) THEN maxIndex[1] ELSE Len(ms)
        endIndex == IF maxIndex # <<>> THEN min ELSE Len(ms)
    IN SnapshotLoop(h, board, ms, endIndex - 1, 0, <<>>)

\* applyMovesWithSnapshots(board, moves, maxIndex); maxIndex is <<>> when omitted
ApplyMovesWithSnapshots(h, board, ms, maxIndex) ==
    LET min == IF maxIndex[1] < Len(ms) THEN maxIndex[1] ELSE Len(ms)
        endIndex == IF maxIndex # <<>> THEN min ELSE Len(ms)
    IN SnapshotLoop(h, board, ms, endIndex, 0, <<>>)

\* generateMoveLabels: a map from position key to label number
RECURSIVE LabelLoop(_, _, _, _, _)
LabelLoop(map, applied, i, range, labelNumber) ==
    IF i > Len(applied) THEN map
    ELSE LET move == applied[i]
         IN IF range = <<>>
            THEN IF ~IsPass(move)
                 THEN LabelLoop(MapSet(map, PosKey(move.position), move.moveNumber),
                                applied, i + 1, range, labelNumber)
                 ELSE LabelLoop(map, applied, i + 1, range, labelNumber)
            ELSE IF /\ ~IsPass(move)
                    /\ move.moveNumber >= range[1]
                    /\ move.moveNumber <= range[2]
                 THEN LabelLoop(MapSet(map, PosKey(move.position), labelNumber),
                                applied, i + 1, range, labelNumber + 1)
                 ELSE LabelLoop(map, applied, i + 1, range, labelNumber)

\* mutant: an entry, once set, is not overwritten by a later move
RECURSIVE KeepFirstLoop(_, _, _)
KeepFirstLoop(map, applied, i) ==
    IF i > Len(applied) THEN map
    ELSE IF ~IsPass(applied[i]) /\ PosKey(applied[i].position) \notin DOMAIN map
         THEN KeepFirstLoop(MapSet(map, PosKey(applied[i].position),
                                   applied[i].moveNumber), applied, i + 1)
         ELSE KeepFirstLoop(map, applied, i + 1)

GenerateMoveLabelsKeepFirst(applied, range) ==
    IF range = <<>> THEN KeepFirstLoop(EmptyMap, applied, 1)
    ELSE LabelLoop(EmptyMap, applied, 1, range, 1)

GenerateMoveLabels(applied, range) == LabelLoop(EmptyMap, applied, 1, range, 1)

\* formatOverwrittenLabels: `${originalMove} at ${overwrittenByMove}`, a string
\* that determines the two numbers; held as the pair
FormatOverwrittenLabels(records) ==
    [i \in DOMAIN records |-> <<records[i].originalMove, records[i].overwrittenByMove>>]

---------------------------------------------------------------------------
(* index.ts: the overwrittenLabels convertSgfToImage returns *)

\* mutant: the labels are generated whether or not the move option is given
DisplayedLabelsIgnoresMove(applied, range, index) == GenerateMoveLabels(applied, range)

\* displayedLabels: empty with the move option, generateMoveLabels otherwise
DisplayedLabels(applied, range, index) ==
    IF index # <<>> THEN EmptyMap ELSE GenerateMoveLabels(applied, range)

\* displayedMoveNumbers: the positive label values
DisplayedMoveNumbers(displayedLabels) ==
    {displayedLabels[k] : k \in {j \in DOMAIN displayedLabels : displayedLabels[j] > 0}}

\* filteredOverwrittenLabels, formatted
ReturnedOverwrittenLabels(applied, records, range, index) ==
    LET displayedMoveNumbers ==
            DisplayedMoveNumbers(DisplayedLabels(applied, range, index))
    IN FormatOverwrittenLabels(
           SelectSeq(records, LAMBDA label : label.originalMove \in displayedMoveNumbers))

---------------------------------------------------------------------------
(* The replay of DiagramRenderer.renderDiagram and of convertSgfToImage:     *)
(*   moveResult = applyMoves(Board.empty(size), moves, moveRange, moveIndex) *)
(*   labels = generateMoveLabels(moveResult.appliedMoves, moveRange)        *)
(* renderDiagram hands labels (lastMoveLabel not requested) and the         *)
(* formatted moveResult.overwrittenLabels to the board renderer;            *)
(* convertSgfToImage repeats the same applyMoves call and returns the       *)
(* filtered overwritten labels.                                             *)
(* The move list is revealed one move at a time, move k of the record has   *)
(* moveNumber k as the parser numbers them, and every state holds the       *)
(* result for the list revealed so far.                                     *)

\* the move lists tried on a board of the given size have at most this many
\* moves; one fewer when a selection is passed
RecordLimit(size, range, index) ==
    MaxWork - size - (IF range = <<>> /\ index = <<>> THEN 0 ELSE 1)

\* the games parsed in a conversion have at most this many moves
GameLimit(size) == MaxWork - size - 1

\* the selections a caller may pass: a range (1 <= start <= end) or an index limit
Selections(size) ==
    {[range |-> <<s, e>>, index |-> <<>>] :
        s \in 1..(MaxWork - size - 1), e \in 1..(MaxWork - size - 1)}
        \cup {[range |-> <<>>, index |-> <<k>>] : k \in 0..(MaxWork - size - 1)}

\* moves of the record: a stone colour and a board cell, a position outside the
\* board, or a pass
InputMoves(size, number) ==
    {[color |-> c, position |-> p, moveNumber |-> number] :
        c \in {"black", "white"},
        p \in {Pos(x, y) : x \in 0..(size - 1), y \in 0..(size - 1)}
                 \cup {Pos(size, 0), Null}}

\* the locals of applyMoves at loop entry
LoopEntry ==
    /\ mode = "replay"
    /\ call = NoCall
    /\ moves = <<>>
    /\ done = 0
    /\ currentBoard = 1
    /\ appliedMoves = <<>>
    /\ overwrittenLabels = <<>>
    /\ movePositionMap = EmptyMap
    /\ raised = FALSE
    /\ caught = {}
    /\ step = NoStep
    /\ labels = EmptyMap
    /\ options = NoOptions
    /\ returned = <<>>
    /\ renderer = NoRenderer
    /\ pc = "loop"

\* no moveRange, no moveIndex
InitReplay ==
    /\ \E size \in 1..MaxSize :
         /\ ValidSize(size)
         /\ heap = <<[size |-> size, grid |-> EmptyGrid(size)]>>
    /\ moveRange = <<>>
    /\ moveIndex = <<>>
    /\ LoopEntry

\* a moveRange or a moveIndex
InitSelect ==
    /\ \E size \in 1..MaxSize :
         /\ ValidSize(size)
         /\ heap = <<[size |-> size, grid |-> EmptyGrid(size)]>>
         /\ \E sel \in {s \in Selections(size) :
                           s.range = <<>> \/ s.range[1] <= s.range[2]} :
               moveRange = sel.range /\ moveIndex = sel.index
    /\ LoopEntry

LoopState == [heap |-> heap, currentBoard |-> currentBoard,
              appliedMoves |-> appliedMoves, overwrittenLabels |-> overwrittenLabels,
              movePositionMap |-> movePositionMap, raised |-> raised,
              caught |-> caught]

\* the next move of the list: selectMoves decides whether the loop sees it, the
\* loop body runs on each newly selected move, and the labels are those of the
\* moves applied so far
ApplyMove ==
    /\ mode \in {"replay", "convert"}
    /\ pc = "loop"
    /\ ~raised
    /\ Len(moves) < (IF mode = "convert" THEN GameLimit(heap[1].size)
                      ELSE RecordLimit(heap[1].size, moveRange, moveIndex))
    /\ \E move \in InputMoves(heap[1].size, Len(moves) + 1) :
          LET selected == SelectMoves(Append(moves, move), moveRange, moveIndex)
          IN \E st \in {LoopFrom(LoopState, selected, done + 1)} :
             /\ moves' = Append(moves, move)
             /\ done' = Len(selected)
             /\ heap' = st.heap
             /\ currentBoard' = st.currentBoard
             /\ appliedMoves' = st.appliedMoves
             /\ overwrittenLabels' = st.overwrittenLabels
             /\ movePositionMap' = st.movePositionMap
             /\ raised' = st.raised
             /\ caught' = st.caught
             /\ labels' = GenerateMoveLabels(st.appliedMoves, moveRange)
             /\ returned' = ReturnedOverwrittenLabels(st.appliedMoves,
                                st.overwrittenLabels, moveRange, moveIndex)
             /\ step' = [kind |-> IF Len(selected) = done THEN "unselected"
                                  ELSE IF st.raised THEN "raised"
                                  ELSE IF Len(st.appliedMoves) = Len(appliedMoves)
                                       THEN "skipped"
                                  ELSE IF IsPass(move) THEN "pass" ELSE "applied",
                         move |-> move,
                         heap |-> heap,
                         currentBoard |-> currentBoard,
                         appliedMoves |-> appliedMoves,
                         overwrittenLabels |-> overwrittenLabels,
                         movePositionMap |-> movePositionMap,
                         labels |-> labels]
    /\ UNCHANGED <<call, mode, moveRange, moveIndex, options, renderer, pc>>

\* renderDiagram hands every record of the replay, formatted, to
\* renderOverwrittenLabels
DrawnOverwrittenLabels == FormatOverwrittenLabels(overwrittenLabels)

Next == ApplyMove

Spec == InitReplay /\ [][Next]_vars

SpecSelect == InitSelect /\ [][Next]_vars

---------------------------------------------------------------------------
(* convertSgfToImage: the validation of the moveRange and move options, then *)
(* parsing, rendering and the replay above. An option value is a JavaScript  *)
(* number; it is held as twice its value, so that 3 stands for 1.5 and the   *)
(* integers are the even values.                                            *)

MaxOption == 3      \* option values range over -1, -0.5, 0, 0.5, ..., MaxOption

Num(n) == 2 * n
IsInteger(h) == h % 2 = 0
ToInt(h) == h \div 2

OptionValues == (-2)..(2 * MaxOption)

ErrBothOptions == "Cannot specify both moveRange and move options. Use one or the other."
ErrRangeInteger == "Move range values must be integers"
ErrRangePositive == "Move range values must be positive (1-based indexing)"
ErrRangeOrder == "Move range start must be less than or equal to end"
ErrMoveIndex == "Move index must be a non-negative integer (0-based indexing)"

\* mutant: the comparison of start and end is missing
ValidateOptionsNoOrder(opts) ==
    IF opts.moveRange # <<>> /\ opts.move # <<>> THEN ErrBothOptions
    ELSE IF /\ opts.moveRange # <<>>
            /\ (~IsInteger(opts.moveRange[1]) \/ ~IsInteger(opts.moveRange[2]))
         THEN ErrRangeInteger
    ELSE IF /\ opts.moveRange # <<>>
            /\ (opts.moveRange[1] < Num(1) \/ opts.moveRange[2] < Num(1))
         THEN ErrRangePositive
    ELSE IF opts.move # <<>> /\ (~IsInteger(opts.move[1]) \/ opts.move[1] < Num(0))
         THEN ErrMoveIndex
    ELSE "none"

\* the checks of moveRange and move, in the order of the code: the message of
\* the RenderError thrown, "none" when the options pass
ValidateOptions(opts) ==
    IF opts.moveRange # <<>> /\ opts.move # <<>> THEN ErrBothOptions
    ELSE IF /\ opts.moveRange # <<>>
            /\ (~IsInteger(opts.moveRange[1]) \/ ~IsInteger(opts.moveRange[2]))
         THEN ErrRangeInteger
    ELSE IF /\ opts.moveRange # <<>>
            /\ (opts.moveRange[1] < Num(1) \/ opts.moveRange[2] < Num(1))
         THEN ErrRangePositive
    ELSE IF opts.moveRange # <<>> /\ opts.moveRange[1] > opts.moveRange[2]
         THEN ErrRangeOrder
    ELSE IF opts.move # <<>> /\ (~IsInteger(opts.move[1]) \/ opts.move[1] < Num(0))
         THEN ErrMoveIndex
    ELSE "none"

InitConvert ==
    /\ mode = "convert"
    /\ heap = <<>>
    /\ call = NoCall
    /\ \E r \in {<<>>} \cup (OptionValues \X OptionValues),
          m \in {<<>>} \cup {<<h>> : h \in OptionValues} :
             options = [given |-> TRUE, moveRange |-> r, move |-> m]
    /\ moves = <<>>
    /\ moveRange = <<>>
    /\ moveIndex = <<>>
    /\ done = 0
    /\ currentBoard = 0
    /\ appliedMoves = <<>>
    /\ overwrittenLabels = <<>>
    /\ movePositionMap = EmptyMap
    /\ raised = FALSE
    /\ caught = {}
    /\ step = NoStep
    /\ labels = EmptyMap
    /\ returned = <<>>
    /\ renderer = NoRenderer
    /\ pc = "validate"

\* the options are validated; when they pass the game is parsed (a board size
\* and the move list ApplyMove reveals) and the replay starts on Board.empty
ConvertSgfToImage ==
    /\ mode = "convert"
    /\ pc = "validate"
    /\ \E error \in {ValidateOptions(options)} :
          IF error # "none"
          THEN /\ call' = [op |-> "convertSgfToImage", ok |-> FALSE,
                           errorType |-> "RenderError", error |-> error]
               /\ pc' = "rejected"
               /\ UNCHANGED <<heap, currentBoard, moveRange, moveIndex>>
          ELSE /\ call' = [op |-> "convertSgfToImage", ok |-> TRUE,
                           errorType |-> "none", error |-> "none"]
               /\ pc' = "loop"
               /\ \E size \in 1..MaxSize :
                     /\ ValidSize(size)
                     /\ heap' = <<[size |-> size, grid |-> EmptyGrid(size)]>>
               /\ currentBoard' = 1
               /\ moveRange' = IF options.moveRange = <<>> THEN <<>>
                                ELSE <<ToInt(options.moveRange[1]),
                                       ToInt(options.moveRange[2])>>
               /\ moveIndex' = IF options.move = <<>> THEN <<>>
                                ELSE <<ToInt(options.move[1])>>
    /\ UNCHANGED <<mode, moves, done, appliedMoves, overwrittenLabels,
                   movePositionMap, raised, caught, step, labels, options, returned,
                   renderer>>

SpecConvert == InitConvert /\ [][ConvertSgfToImage \/ ApplyMove]_vars

---------------------------------------------------------------------------
(* selectMoves called on its own: any list of at most MaxList moves, with   *)
(* move numbers in any order, a range or none, an index limit or none.      *)

MaxList == 3        \* length of the list, and largest move number in it

InitSelectMoves ==
    /\ mode = "select"
    /\ heap = <<>>
    /\ call = NoCall
    /\ \E n \in 0..MaxList :
          \E numbers \in [1..n -> 1..MaxList] :
             moves = [i \in 1..n |-> [color |-> "black", position |-> Null,
                                       moveNumber |-> numbers[i]]]
    /\ moveRange \in {<<>>} \cup ((0..(MaxList + 1)) \X (0..(MaxList + 1)))
    /\ moveIndex \in {<<>>} \cup {<<k>> : k \in (-1)..(MaxList + 1)}
    /\ done = 0
    /\ currentBoard = 0
    /\ appliedMoves = <<>>
    /\ overwrittenLabels = <<>>
    /\ movePositionMap = <<>>
    /\ raised = FALSE
    /\ caught = {}
    /\ step = NoStep
    /\ labels = <<>>
    /\ options = NoOptions
    /\ returned = <<>>
    /\ renderer = NoRenderer
    /\ pc = "idle"

CallSelectMoves ==
    /\ mode = "select"
    /\ call = NoCall
    /\ call' = [op |-> "selectMoves",
                result |-> SelectMoves(moves, moveRange, moveIndex)]
    /\ UNCHANGED <<heap, mode, replayVars>>

SpecSelectMoves == InitSelectMoves /\ [][CallSelectMoves]_vars

\* applyMovesWithSnapshots on an empty board: a list of moves numbered from 1
\* and a maxIndex, omitted or a count of moves
RECURSIVE MoveLists(_, _)
MoveLists(size, n) ==
    IF n = 0 THEN {<<>>}
    ELSE {Append(ms, move) : ms \in MoveLists(size, n - 1), move \in InputMoves(size, n)}

\* the lists given to applyMovesWithSnapshots have at most this many moves
SnapshotLimit == MaxWork - MaxSize - 1

InitSnapshots ==
    /\ mode = "snapshots"
    /\ \E size \in 1..MaxSize :
         /\ ValidSize(size)
         /\ heap = <<[size |-> size, grid |-> EmptyGrid(size)]>>
         /\ \E n \in 0..SnapshotLimit :
               /\ moves \in MoveLists(size, n)
               /\ moveIndex \in {<<>>} \cup {<<k>> : k \in 0..(n + 1)}
    /\ call = NoCall
    /\ moveRange = <<>>
    /\ done = 0
    /\ currentBoard = 1
    /\ appliedMoves = <<>>
    /\ overwrittenLabels = <<>>
    /\ movePositionMap = EmptyMap
    /\ raised = FALSE
    /\ caught = {}
    /\ step = NoStep
    /\ labels = EmptyMap
    /\ options = NoOptions
    /\ returned = <<>>
    /\ renderer = NoRenderer
    /\ pc = "idle"

CallApplyMovesWithSnapshots ==
    /\ mode = "snapshots"
    /\ call = NoCall
    /\ \E r \in {ApplyMovesWithSnapshots(heap, currentBoard, moves, moveIndex)} :
          /\ heap' = r.heap
          /\ call' = [op |-> "applyMovesWithSnapshots", before |-> heap,
                      result |-> r.snapshots]
    /\ UNCHANGED <<mode, replayVars>>

SpecSnapshots == InitSnapshots /\ [][CallApplyMovesWithSnapshots]_vars

---------------------------------------------------------------------------
(* DiagramRenderer: initialize() awaits CanvasFactory.initialize(), which     *)
(* loads the canvas backend and may fail; renderDiagram refuses to work on a *)
(* renderer that is not initialized.                                         *)

MaxPending == 2     \* initialize() calls waiting at the same time
\* the lists given to renderDiagram have at most this many moves
RenderLimit == MaxWork - MaxSize - 3

ErrNotInitialized == "DiagramRenderer not initialized. Call initialize() first."
ErrCanvasBackend == "node-canvas is required for server-side rendering."
FailedToRender(message) == "Failed to render diagram: " \o message

\* new DiagramRenderer(): private initialized = false
NewRenderer == [made |-> TRUE, initialized |-> FALSE, pending |-> 0]

\* isInitialized()
IsInitialized(r) == r.initialized

\* mutant: a failed load of the backend clears the flag
SettleInitializeResets(r, loaded) ==
    [r EXCEPT !.initialized = loaded, !.pending = r.pending - 1]

\* initialize() after its await: this.initialized = true when the backend was
\* loaded, nothing when CanvasFactory.initialize() threw
SettleInitialize(r, loaded) ==
    IF loaded THEN [r EXCEPT !.initialized = TRUE, !.pending = r.pending - 1]
    ELSE [r EXCEPT !.pending = r.pending - 1]

\* the option values given to renderDiagram: none, a range, a move, or both
RenderOptionValues ==
    {[moveRange |-> <<>>, move |-> <<>>],
     [moveRange |-> <<1, 2>>, move |-> <<>>],
     [moveRange |-> <<>>, move |-> <<1>>],
     [moveRange |-> <<1, 2>>, move |-> <<1>>]}

\* what renderDiagram draws from the result of applyMoves: the stones of the
\* board, the labels and the caption
RenderMoveResult(moveResult, opts) ==
    [ok |-> TRUE, error |-> "none", heap |-> moveResult.heap,
     board |-> moveResult.currentBoard,
     labels |-> GenerateMoveLabels(moveResult.appliedMoves, opts.moveRange),
     overwrittenLabels |-> FormatOverwrittenLabels(moveResult.overwrittenLabels)]

\* renderDiagram from Board.empty on: the constructor may throw
RenderOnBoard(initialBoard, ms, opts) ==
    IF ~initialBoard.ok
    THEN [ok |-> FALSE, error |-> initialBoard.error, heap |-> <<>>]
    ELSE RenderMoveResult(ApplyMoves(initialBoard.heap, initialBoard.board, ms,
                                     opts.moveRange, opts.move), opts)

\* the body of the try block of renderDiagram: the drawing itself left out
RenderBody(boardSize, ms, opts) ==
    IF opts.moveRange # <<>> /\ opts.move # <<>>
    THEN [ok |-> FALSE, error |-> ErrBothOptions, heap |-> <<>>]
    ELSE RenderOnBoard(NewBoard(<<>>, boardSize), ms, opts)

\* the catch clause of renderDiagram wraps the error of the body
RenderOutcome(body) ==
    IF ~body.ok
    THEN [ok |-> FALSE, errorType |-> "RenderError",
          error |-> FailedToRender(body.error),
          boards |-> Len(body.heap), heap |-> body.heap]
    ELSE [ok |-> TRUE, errorType |-> "none", error |-> "none",
          boards |-> Len(body.heap), heap |-> body.heap,
          board |-> body.board, labels |-> body.labels,
          overwrittenLabels |-> body.overwrittenLabels]

\* renderDiagram(boardSize, moves, options) of the renderer r
RenderDiagramOf(r, boardSize, ms, opts) ==
    IF ~r.initialized
    THEN [ok |-> FALSE, errorType |-> "RenderError", error |-> ErrNotInitialized,
          boards |-> 0, heap |-> <<>>]
    ELSE RenderOutcome(RenderBody(boardSize, ms, opts))

InitRenderer ==
    /\ mode = "render"
    /\ heap = <<>>
    /\ call = NoCall
    /\ ReplayIdle

\* createDiagramRenderer()
CreateDiagramRenderer ==
    /\ mode = "render"
    /\ ~renderer.made
    /\ renderer' = NewRenderer
    /\ call' = [op |-> "createDiagramRenderer", before |-> renderer, ok |-> TRUE]
    /\ UNCHANGED <<heap, mode, moves, moveRange, moveIndex, done, currentBoard,
                   appliedMoves, overwrittenLabels, movePositionMap, raised, caught,
                   step, labels, options, returned, pc>>

\* initialize() up to its await: it returns at once on an initialized renderer
\* and waits for CanvasFactory.initialize() otherwise
Initialize ==
    /\ mode = "render"
    /\ renderer.made
    /\ IF renderer.initialized
       THEN /\ renderer' = renderer
            /\ call' = [op |-> "initialize", phase |-> "returned at once",
                        before |-> renderer, ok |-> TRUE, error |-> "none"]
       ELSE /\ renderer.pending < MaxPending
            /\ renderer' = [renderer EXCEPT !.pending = renderer.pending + 1]
            /\ call' = [op |-> "initialize", phase |-> "awaiting",
                        before |-> renderer, ok |-> TRUE, error |-> "none"]
    /\ UNCHANGED <<heap, mode, moves, moveRange, moveIndex, done, currentBoard,
                   appliedMoves, overwrittenLabels, movePositionMap, raised, caught,
                   step, labels, options, returned, pc>>

\* CanvasFactory.initialize() settles for one waiting initialize() call
InitializeResume ==
    /\ mode = "render"
    /\ renderer.made
    /\ renderer.pending > 0
    /\ \E loaded \in BOOLEAN :
          /\ renderer' = SettleInitialize(renderer, loaded)
          /\ call' = [op |-> "initialize", phase |-> "settled",
                      before |-> renderer, ok |-> loaded,
                      error |-> IF loaded THEN "none" ELSE ErrCanvasBackend]
    /\ UNCHANGED <<heap, mode, moves, moveRange, moveIndex, done, currentBoard,
                   appliedMoves, overwrittenLabels, movePositionMap, raised, caught,
                   step, labels, options, returned, pc>>

\* renderDiagram: the boards of a call are its own, the heap holds those of the
\* last call that made any
RenderDiagram ==
    /\ mode = "render"
    /\ renderer.made
    /\ \E boardSize \in 0..MaxSize :
         \E n \in 0..RenderLimit :
           \E ms \in MoveLists(boardSize, n) :
             \E opts \in RenderOptionValues :
               \E r \in {RenderDiagramOf(renderer, boardSize, ms, opts)} :
                  /\ heap' = IF r.boards = 0 THEN heap ELSE r.heap
                  /\ call' = [op |-> "renderDiagram", before |-> renderer,
                              boardSize |-> boardSize,
                              moves |-> ms, options |-> opts, result |-> r]
    /\ UNCHANGED <<mode, replayVars>>

NextRenderer == CreateDiagramRenderer \/ Initialize \/ InitializeResume \/ RenderDiagram

SpecRenderer == InitRenderer /\ [][NextRenderer]_vars

\* Board objects used directly and Board objects in a replay
SpecObjects == (InitBoard \/ InitReplay) /\ [][NextBoard \/ Next]_vars

---------------------------------------------------------------------------
(* Go rules stated on grids, independently of the traversal in Board        *)

Cells(b) == {Pos(x, y) : x \in 0..(b.size - 1), y \in 0..(b.size - 1)}

ColourAt(b, q) == b.grid[q.y][q.x]

Adjacent(p, q) ==
    \/ (p.x = q.x /\ (p.y = q.y + 1 \/ q.y = p.y + 1))
    \/ (p.y = q.y /\ (p.x = q.x + 1 \/ q.x = p.x + 1))

\* the maximal same-colour 4-connected set of cells containing the cell p
RECURSIVE Grow(_, _)
Grow(b, S) ==
    LET T == S \cup {q \in Cells(b) :
                        \E p \in S : Adjacent(p, q) /\ ColourAt(b, q) = ColourAt(b, p)}
    IN IF T = S THEN S ELSE Grow(b, T)

Component(b, p) == Grow(b, {p})

HasLiberty(b, S) ==
    \E p \in S : \E q \in Cells(b) : Adjacent(p, q) /\ ColourAt(b, q) = "empty"

Opponent(c) == IF c = "black" THEN "white" ELSE "black"

\* the board with colour c written on cell p, nothing else changed
Candidate(b, p, c) == [b EXCEPT !.grid[p.y][p.x] = c]

\* the cells of the opponent groups next to p that have no liberty once c is on p
DeadOpponents(b, p, c) ==
    LET cand == Candidate(b, p, c)
    IN UNION {Component(cand, q) :
                q \in {r \in Cells(b) : /\ Adjacent(p, r)
                                        /\ ColourAt(cand, r) = Opponent(c)
                                        /\ ~HasLiberty(cand, Component(cand, r))}}

Cleared(b, S) ==
    [b EXCEPT !.grid = [y \in 0..(b.size - 1) |-> [x \in 0..(b.size - 1) |->
                           IF Pos(x, y) \in S THEN "empty" ELSE b.grid[y][x]]]]

\* the last call was placeStone of a stone colour on an empty cell of the board
PlacedOnEmpty ==
    /\ call.op = "placeStone"
    /\ call.position \in Cells(call.before[call.this])
    /\ ColourAt(call.before[call.this], call.position) = "empty"
    /\ call.color # "empty"

CallBefore == call.before[call.this]
CallCandidate == Candidate(CallBefore, call.position, call.color)
CallDead == DeadOpponents(CallBefore, call.position, call.color)

---------------------------------------------------------------------------
(* Claims about Board, checked under SpecBoard *)

\* C1: placeStone resolves captures before the suicide check: when the stone
\* placed on an empty cell leaves an adjacent opponent group without liberties
\* and the placed stone's group has a liberty once those groups are removed,
\* the placement succeeds.
C1_CaptureBeforeSuicide ==
    PlacedOnEmpty =>
        LET cleared == Cleared(CallCandidate, CallDead)
        IN (/\ CallDead # {}
            /\ HasLiberty(cleared, Component(cleared, call.position)))
           => (call.ok /\ call.error = "none")

\* C1 witness: a successful capture by a stone that had no liberty before the
\* captured groups were removed
C1_Witness ==
    /\ PlacedOnEmpty
    /\ call.ok
    /\ CallDead # {}
    /\ ~HasLiberty(CallCandidate, Component(CallCandidate, call.position))

\* C2: placeStone fails with the suicide error whenever the stone placed on an
\* empty cell captures no adjacent opponent group and its own group has no
\* liberty; every placement on a 1x1 board is such a case.
C2_SuicideRejected ==
    PlacedOnEmpty =>
        /\ (/\ CallDead = {}
            /\ ~HasLiberty(CallCandidate, Component(CallCandidate, call.position)))
           => (~call.ok /\ call.error = ErrSuicide)
        /\ CallBefore.size = 1 => (~call.ok /\ call.error = ErrSuicide)

\* C2 witness: a suicide of a group of at least two stones was rejected
C2_Witness ==
    /\ PlacedOnEmpty
    /\ CallDead = {}
    /\ Cardinality(Component(CallCandidate, call.position)) >= 2
    /\ ~HasLiberty(CallCandidate, Component(CallCandidate, call.position))
    /\ call.error = ErrSuicide

\* C3: after a successful placeStone the cells that held a stone before and are
\* empty after are exactly the cells of the adjacent opponent groups that have
\* no liberty once the stone is on p.
C3_CapturedExactly ==
    (call.op = "placeStone" /\ call.ok) =>
        {q \in Cells(CallBefore) :
            /\ ColourAt(CallBefore, q) # "empty"
            /\ ColourAt(heap[call.board], q) = "empty"} = CallDead

\* C3 witness: a successful placement that removed a group of two or more stones
C3_Witness ==
    /\ call.op = "placeStone"
    /\ call.ok
    /\ Cardinality(CallDead) >= 2
    /\ \A q \in CallDead : ColourAt(heap[call.board], q) = "empty"

\* C4: placeStone (successful or failing) and removeStones leave every Board
\* object that existed before the call as it was and return a new object; in a
\* replay the boards obtained before a move are unchanged after it.
C4_Immutable ==
    /\ call.op # "none" =>
        /\ \A r \in DOMAIN call.before : heap[r] = call.before[r]
        /\ call.ok => (call.board \in DOMAIN heap /\ call.board \notin DOMAIN call.before)
    /\ step.kind # "none" =>
        /\ \A r \in DOMAIN step.heap : heap[r] = step.heap[r]
        /\ step.kind = "applied" =>
              (currentBoard \in DOMAIN heap /\ currentBoard \notin DOMAIN step.heap)

\* C4 witness: in a replay that has already produced three boards, a move is
\* applied with a capture and yields a board that differs from the one before
C4_Witness ==
    /\ step.kind = "applied"
    /\ Len(step.heap) >= 3
    /\ Len(overwrittenLabels) > Len(step.overwrittenLabels)
    /\ heap[currentBoard] # heap[step.currentBoard]

---------------------------------------------------------------------------
(* Claims about applyMoves and generateMoveLabels *)

\* the board the replay started from and the board it has reached
InitialBoard == heap[1]
Current == heap[currentBoard]
StepBefore == step.heap[step.currentBoard]

\* the state of applyMoves at loop entry on the initial board
EntryState == [heap |-> <<InitialBoard>>, currentBoard |-> 1, appliedMoves |-> <<>>,
               overwrittenLabels |-> <<>>, movePositionMap |-> EmptyMap,
               raised |-> FALSE, caught |-> {}]

InRange(move) == move.moveNumber >= moveRange[1] /\ move.moveNumber <= moveRange[2]

\* C5: with a range [M,N] and no index limit applyMoves replays every move
\* numbered 1 through N: the board and appliedMoves are those of the replay of
\* the moves numbered at most N, the legal moves below M included.
C5_RangeReplaysFromMoveOne ==
    (mode = "replay" /\ moveRange # <<>> /\ moveIndex = <<>>) =>
        LET upToN == SelectSeq(moves, LAMBDA m : m.moveNumber <= moveRange[2])
            ref == LoopFrom(EntryState, upToN, 1)
        IN /\ appliedMoves = ref.appliedMoves
           /\ Current = ref.heap[ref.currentBoard]

\* C6: with a range [M,N] generateMoveLabels labels each applied non-pass move
\* numbered in [M,N] with its own moveNumber: every label value lies in [M,N],
\* every entry belongs to such a move, and the entry of a position is the number
\* of the last such move played there.
C6_RangeLabelsAreMoveNumbers ==
    (mode = "replay" /\ moveRange # <<>>) =>
        LET shown == {i \in DOMAIN appliedMoves :
                         ~IsPass(appliedMoves[i]) /\ InRange(appliedMoves[i])}
        IN /\ \A k \in DOMAIN labels :
                 labels[k] >= moveRange[1] /\ labels[k] <= moveRange[2]
           /\ DOMAIN labels = {PosKey(appliedMoves[i].position) : i \in shown}
           /\ \A i \in shown :
                 (\A j \in shown : j > i =>
                      appliedMoves[j].position # appliedMoves[i].position)
                 => labels[PosKey(appliedMoves[i].position)] = appliedMoves[i].moveNumber

\* C7 as stated: without a range, every applied move with a position has its own
\* moveNumber as the label of its position
C7_LabelIsOwnMoveNumber ==
    (mode = "replay" /\ moveRange = <<>>) =>
        \A i \in DOMAIN appliedMoves :
            ~IsPass(appliedMoves[i]) =>
                /\ PosKey(appliedMoves[i].position) \in DOMAIN labels
                /\ labels[PosKey(appliedMoves[i].position)] = appliedMoves[i].moveNumber

\* index of the last applied move played on the position of applied move i
LastAt(i) ==
    CHOOSE j \in DOMAIN appliedMoves :
        /\ appliedMoves[j].position = appliedMoves[i].position
        /\ \A k \in DOMAIN appliedMoves :
              appliedMoves[k].position = appliedMoves[i].position => k <= j

\* C7 (amended): without a range, the map has an entry exactly for the positions
\* of the applied moves that have one, and the label of a position is the
\* moveNumber of the last applied move played there: move N's position carries
\* label N unless a later applied move shares the position.
C7_LabelIsLastMoveAtPosition ==
    (mode = "replay" /\ moveRange = <<>>) =>
        /\ DOMAIN labels = {PosKey(appliedMoves[i].position) :
                               i \in {j \in DOMAIN appliedMoves : ~IsPass(appliedMoves[j])}}
        /\ \A i \in DOMAIN appliedMoves :
              ~IsPass(appliedMoves[i]) =>
                  labels[PosKey(appliedMoves[i].position)]
                      = appliedMoves[LastAt(i)].moveNumber

\* C7 witness: two applied moves share a position (a capture emptied it in
\* between) and the label there is the later move's number
C7_Witness ==
    /\ mode = "replay"
    /\ moveRange = <<>>
    /\ \E i, j \in DOMAIN appliedMoves :
          /\ i < j
          /\ ~IsPass(appliedMoves[i])
          /\ appliedMoves[i].position = appliedMoves[j].position
          /\ labels[PosKey(appliedMoves[j].position)] = appliedMoves[j].moveNumber

\* C8: a move onto an occupied cell is skipped with no trace: appliedMoves and
\* the board are unchanged and no record names the move as overwrittenByMove.
C8_OccupiedMoveLeavesNoTrace ==
    (/\ step.kind = "skipped"
     /\ GetStone(StepBefore, step.move.position) # "empty") =>
        /\ appliedMoves = step.appliedMoves
        /\ Current = StepBefore
        /\ \A i \in DOMAIN overwrittenLabels :
              overwrittenLabels[i].overwrittenByMove # step.move.moveNumber

\* the cells that held a stone before the last move and are empty after it
StepCaptured ==
    {q \in Cells(StepBefore) :
        ColourAt(StepBefore, q) # "empty" /\ ColourAt(Current, q) = "empty"}

\* the records the last move added to overwrittenLabels
StepRecords ==
    SubSeq(overwrittenLabels, Len(step.overwrittenLabels) + 1, Len(overwrittenLabels))

\* the number of the applied move that placed the stone standing on q before the
\* last move: the last move applied there
PlacedBy(q) ==
    LET at == {i \in DOMAIN step.appliedMoves : step.appliedMoves[i].position = q}
    IN step.appliedMoves[CHOOSE i \in at : \A j \in at : j <= i].moveNumber

\* C9: from an empty board, an applied move m that captures stones adds exactly
\* one record {originalMove: k, overwrittenByMove: m, position: q} per captured
\* cell q, k being the move that placed the stone captured on q, and nothing
\* else; a captured cell stays empty unless a later applied move plays there.
C9_OneRecordPerCapturedCell ==
    /\ step.kind = "applied" =>
          /\ Len(StepRecords) = Cardinality(StepCaptured)
          /\ \A q \in StepCaptured :
                \E i \in DOMAIN StepRecords :
                    StepRecords[i] = [originalMove |-> PlacedBy(q),
                                      overwrittenByMove |-> step.move.moveNumber,
                                      position |-> q]
    /\ mode = "replay" =>
          \A i \in DOMAIN overwrittenLabels :
              LET rec == overwrittenLabels[i]
              IN (\E a \in DOMAIN appliedMoves :
                     appliedMoves[a].moveNumber = rec.overwrittenByMove)
                 => \/ ColourAt(Current, rec.position) = "empty"
                    \/ \E a \in DOMAIN appliedMoves :
                          /\ appliedMoves[a].moveNumber > rec.overwrittenByMove
                          /\ appliedMoves[a].position = rec.position

\* C9 witness: an applied move captured a group of two stones and left two records
C9_Witness ==
    /\ step.kind = "applied"
    /\ Cardinality(StepCaptured) = 2
    /\ Len(StepRecords) = 2

\* C10: applyMoves raises no error: a move onto an occupied cell, a suicide and
\* a move outside the board are skipped, and every move of the list is processed.
C10_NeverRaises ==
    mode = "replay" =>
        /\ ~raised
        /\ step.kind # "raised"
        /\ done = Len(moves)
        /\ caught \subseteq {ErrInvalidPosition, ErrOccupied, ErrSuicide}

\* C10 witness: a move onto an occupied cell and a suicide were both skipped in
\* a replay that applied moves around them
C10_Witness ==
    /\ mode = "replay"
    /\ ~raised
    /\ {ErrOccupied, ErrSuicide} \subseteq caught
    /\ Len(appliedMoves) >= 2
    /\ done = Len(moves)

\* C11: a pass among the selected moves is appended to appliedMoves and changes
\* nothing else: the board, the ownership map and overwrittenLabels are those
\* before the pass, and the label map has the entries it had before and none
\* for the pass.
C11_PassOnlyAppends ==
    /\ step.kind = "pass" =>
          /\ appliedMoves = Append(step.appliedMoves, step.move)
          /\ currentBoard = step.currentBoard
          /\ heap = step.heap
          /\ movePositionMap = step.movePositionMap
          /\ overwrittenLabels = step.overwrittenLabels
          /\ labels = step.labels
    /\ mode = "replay" =>
          /\ \A i \in DOMAIN moves :
                (IsPass(moves[i]) /\ i <= done) =>
                    \E a \in DOMAIN appliedMoves : appliedMoves[a] = moves[i]
          /\ Cardinality(DOMAIN labels)
                <= Cardinality({a \in DOMAIN appliedMoves : ~IsPass(appliedMoves[a])})

\* C11 witness: a pass was applied after a capture, with stones on the board,
\* labels on the map and a record in overwrittenLabels
C11_Witness ==
    /\ step.kind = "pass"
    /\ Len(appliedMoves) = Len(step.appliedMoves) + 1
    /\ overwrittenLabels # <<>>
    /\ Cardinality(DOMAIN labels) >= 2

---------------------------------------------------------------------------
(* Claims about Board.placeStone with the colour 'empty', under SpecBoard *)

\* C18 as stated: placeStone with colour 'empty' fails with 'Cannot place empty
\* stone' on every board and at every position, occupied and out-of-range
\* positions included
C18_EmptyColourAlwaysInvalidColour ==
    (call.op = "placeStone" /\ call.color = "empty") =>
        (~call.ok /\ call.error = "Cannot place empty stone")

\* C18 (amended): placeStone with colour 'empty' fails on every board and at
\* every position and creates no board; the error is 'Cannot place empty stone'
\* when the position is an empty cell of the board, 'Invalid position' when it
\* is outside the board and 'Position already occupied' when a stone is on it.
C18_EmptyColourFails ==
    (call.op = "placeStone" /\ call.color = "empty") =>
        /\ ~call.ok
        /\ heap = call.before
        /\ call.error =
              IF call.position \notin Cells(CallBefore) THEN "Invalid position"
              ELSE IF ColourAt(CallBefore, call.position) # "empty"
                   THEN "Position already occupied"
              ELSE "Cannot place empty stone"

\* C18 witness: 'empty' placed on an empty cell next to stones of both colours
C18_Witness ==
    /\ call.op = "placeStone"
    /\ call.color = "empty"
    /\ call.position \in Cells(CallBefore)
    /\ ColourAt(CallBefore, call.position) = "empty"
    /\ \E p, q \in Cells(CallBefore) :
          /\ ColourAt(CallBefore, p) = "black"
          /\ ColourAt(CallBefore, q) = "white"
    /\ call.error = ErrEmptyStone

---------------------------------------------------------------------------
(* Claims about DiagramRenderer.renderDiagram, under SpecSelect *)

\* C19: when renderDiagram is called with the move option (and without
\* lastMoveLabel) the label map handed to the board renderer is empty and the
\* list of overwritten labels handed to it is empty, so that no caption is drawn.
C19_MoveOptionDrawsNoLabels ==
    (mode = "replay" /\ pc = "loop" /\ moveIndex # <<>>) =>
        /\ labels = EmptyMap
        /\ FormatOverwrittenLabels(overwrittenLabels) = <<>>

---------------------------------------------------------------------------
(* Claims about selectMoves, checked under SpecSelectMoves *)

\* the moves numbered in [s, e], in their order in the list
RECURSIVE InRangeOf(_, _, _)
InRangeOf(ms, s, e) ==
    IF ms = <<>> THEN <<>>
    ELSE (IF Head(ms).moveNumber >= s /\ Head(ms).moveNumber <= e
          THEN <<Head(ms)>> ELSE <<>>) \o InRangeOf(Tail(ms), s, e)

\* the first k entries of the list, the whole list when it has fewer
FirstOf(ms, k) == [i \in 1..(IF k < Len(ms) THEN k ELSE Len(ms)) |-> ms[i]]

\* C12: selectMoves(moves, range, K), K a count (K >= 0), returns the moves
\* numbered in [start, end] in their original order cut to the first K of them;
\* with only K the first K moves, with only a range the moves in the range,
\* with neither the whole list.
C12_FilterThenTruncate ==
    (call.op = "selectMoves" /\ (moveIndex = <<>> \/ moveIndex[1] >= 0)) =>
        call.result =
            IF moveRange # <<>> /\ moveIndex # <<>>
            THEN FirstOf(InRangeOf(moves, moveRange[1], moveRange[2]), moveIndex[1])
            ELSE IF moveIndex # <<>> THEN FirstOf(moves, moveIndex[1])
            ELSE IF moveRange # <<>> THEN InRangeOf(moves, moveRange[1], moveRange[2])
            ELSE moves

\* C12 witness: a range and a count together, the range dropping a move among
\* the first K of the list and the count cutting the filtered list
C12_Witness ==
    /\ call.op = "selectMoves"
    /\ moveRange # <<>>
    /\ moveIndex # <<>>
    /\ moveIndex[1] >= 1
    /\ Len(call.result) = moveIndex[1]
    /\ Len(InRangeOf(moves, moveRange[1], moveRange[2])) > moveIndex[1]
    /\ \E i \in 1..moveIndex[1] :
          moves[i].moveNumber < moveRange[1] \/ moves[i].moveNumber > moveRange[2]

---------------------------------------------------------------------------
(* Claims about convertSgfToImage, checked under SpecConvert *)

\* the applied moves whose number is drawn on the diagram: none with the move
\* option; otherwise the applied moves with a position (numbered in the range,
\* when one is given) that no later such move shares the position with
ShownMoves ==
    IF moveIndex # <<>> THEN {}
    ELSE LET eligible == {i \in DOMAIN appliedMoves :
                             /\ ~IsPass(appliedMoves[i])
                             /\ moveRange # <<>> => InRange(appliedMoves[i])}
         IN {i \in eligible :
                \A j \in eligible :
                    appliedMoves[j].position = appliedMoves[i].position => j <= i}

ShownMoveNumbers == {appliedMoves[i].moveNumber : i \in ShownMoves}

\* C13: the overwrittenLabels convertSgfToImage returns are the records of the
\* replay whose originalMove is the number of a move whose label is displayed,
\* all of them and no other; with a range [M,N] no returned record has an
\* originalMove below M.
C13_ReturnedAreDisplayed ==
    (mode = "convert" /\ pc = "loop") =>
        LET kept == SelectSeq(overwrittenLabels,
                              LAMBDA rec : rec.originalMove \in ShownMoveNumbers)
        IN /\ returned = [i \in DOMAIN kept |->
                             <<kept[i].originalMove, kept[i].overwrittenByMove>>]
           /\ moveRange # <<>> =>
                 \A i \in DOMAIN returned : returned[i][1] >= moveRange[1]

\* C14: with the move option the overwrittenLabels convertSgfToImage returns
\* are empty, whatever the replay recorded.
C14_MoveOptionReturnsNone ==
    (mode = "convert" /\ options.move # <<>>) => returned = <<>>

\* C14 witness: a conversion with the move option whose replay captured a stone
C14_Witness ==
    /\ mode = "convert"
    /\ options.move # <<>>
    /\ step.kind = "applied"
    /\ StepCaptured # {}
    /\ Len(overwrittenLabels) > Len(step.overwrittenLabels)
    /\ returned = <<>>

\* the selection options the claim calls invalid
NonInteger(h) == h % 2 = 1
InvalidSelection(o) ==
    \/ /\ o.moveRange # <<>>
       /\ \/ NonInteger(o.moveRange[1]) \/ NonInteger(o.moveRange[2])
          \/ o.moveRange[1] < 2 \/ o.moveRange[2] < 2
          \/ o.moveRange[1] > o.moveRange[2]
    \/ /\ o.move # <<>>
       /\ (o.move[1] < 0 \/ NonInteger(o.move[1]))
    \/ (o.moveRange # <<>> /\ o.move # <<>>)

\* C15: convertSgfToImage rejects an invalid selection (a non-integer range
\* bound, a bound below 1, start > end, a negative or non-integer move, range
\* and move together) with a RenderError before any board is created, and no
\* move is ever applied for such options.
C15_InvalidSelectionRejected ==
    (mode = "convert" /\ InvalidSelection(options)) =>
        /\ pc \in {"validate", "rejected"}
        /\ heap = <<>>
        /\ moves = <<>>
        /\ appliedMoves = <<>>
        /\ pc = "rejected" =>
              (~call.ok /\ call.errorType = "RenderError" /\ call.error # "none")

\* C15 witness: a range with start > end, both positive integers, was rejected
C15_Witness ==
    /\ mode = "convert"
    /\ pc = "rejected"
    /\ options.move = <<>>
    /\ options.moveRange = <<4, 2>>
    /\ call.error = ErrRangeOrder
    /\ heap = <<>>

\* C17: with the move option K the board and appliedMoves are those of the
\* replay of the first K+1 moves of the list.
C17_MoveShowsFirstKPlusOne ==
    (mode = "convert" /\ pc = "loop" /\ options.move # <<>>) =>
        LET ref == LoopFrom(EntryState, SliceTo(moves, ToInt(options.move[1]) + 1), 1)
        IN /\ appliedMoves = ref.appliedMoves
           /\ Current = ref.heap[ref.currentBoard]

---------------------------------------------------------------------------
(* Claims about the Board constructor, checked under SpecConstruct *)

\* C16: creating a Board succeeds exactly for the sizes 1 through 25; for a
\* size below 1 or above 25 it raises 'Invalid board size' and creates nothing;
\* a created board has the size asked for and size x size cells, all empty.
C16_SizeOneToTwentyFive ==
    call.op = "new" =>
        /\ call.ok <=> (call.size >= 1 /\ call.size <= 25)
        /\ ~call.ok => (call.error = "Invalid board size" /\ heap = call.before)
        /\ call.ok =>
              /\ heap = Append(call.before, heap[call.board])
              /\ heap[call.board].size = call.size
              /\ DOMAIN heap[call.board].grid = 0..(call.size - 1)
              /\ \A y \in 0..(call.size - 1) :
                    /\ DOMAIN heap[call.board].grid[y] = 0..(call.size - 1)
                    /\ \A x \in 0..(call.size - 1) :
                          heap[call.board].grid[y][x] = "empty"

\* C16 witness: a board of size 25 was created after another size was refused
C16_Witness ==
    /\ call.op = "new"
    /\ call.calls = 2
    /\ call.size = 25
    /\ call.ok
    /\ call.before = <<>>
    /\ heap[1].grid[24][24] = "empty"

---------------------------------------------------------------------------
(* Claims about the list of applied moves *)

\* the move is a legal placement on the grid b by the rules of Go
LegalOn(b, move) ==
    /\ move.position \in Cells(b)
    /\ ColourAt(b, move.position) = "empty"
    /\ LET cand == Candidate(b, move.position, move.color)
           cleared == Cleared(cand, DeadOpponents(b, move.position, move.color))
       IN HasLiberty(cleared, Component(cleared, move.position))

PlayedOn(b, move) ==
    Cleared(Candidate(b, move.position, move.color),
            DeadOpponents(b, move.position, move.color))

\* the selected moves the loop has processed that are not in appliedMoves
SkippedMoves == {i \in 1..done : \A a \in DOMAIN appliedMoves : appliedMoves[a] # moves[i]}

\* C20: appliedMoves is the selected moves with the illegal placements left
\* out, in their order: a pass and a legal placement are appended when the loop
\* reaches them, an illegal placement is not and leaves the list as it was; the
\* list is no longer than the selected list and the difference of the lengths
\* is the number of skipped moves, none of them a pass.
C20_AppliedAreSelectedMinusSkipped ==
    mode = "replay" =>
        /\ \A a \in DOMAIN appliedMoves : \E i \in 1..done : moves[i] = appliedMoves[a]
        /\ \A a, b \in DOMAIN appliedMoves :
              a < b => appliedMoves[a].moveNumber < appliedMoves[b].moveNumber
        /\ Len(appliedMoves) <= done
        /\ done - Len(appliedMoves) = Cardinality(SkippedMoves)
        /\ \A i \in SkippedMoves : ~IsPass(moves[i])
        /\ step.kind = "pass" => appliedMoves = Append(step.appliedMoves, step.move)
        /\ step.kind = "applied" =>
              /\ appliedMoves = Append(step.appliedMoves, step.move)
              /\ step.move.position \in Cells(StepBefore)
              /\ ColourAt(StepBefore, step.move.position) = "empty"
              /\ Current = PlayedOn(StepBefore, step.move)
              /\ HasLiberty(Current, Component(Current, step.move.position))
        /\ step.kind = "skipped" =>
              /\ ~IsPass(step.move)
              /\ ~LegalOn(StepBefore, step.move)
              /\ appliedMoves = step.appliedMoves
              /\ Current = StepBefore

\* C20 witness: two illegal moves of different kinds were skipped between a
\* pass and a placement that were applied
C20_Witness ==
    /\ mode = "replay"
    /\ Cardinality(caught) >= 2
    /\ Cardinality(SkippedMoves) >= 2
    /\ \E a \in DOMAIN appliedMoves : IsPass(appliedMoves[a])
    /\ \E a \in DOMAIN appliedMoves : ~IsPass(appliedMoves[a])

---------------------------------------------------------------------------
(* Frame of a successful placement, under SpecBoard *)

\* C21: after a successful placeStone(p, c) the returned board holds c at p,
\* every cell other than p and the captured opponent cells holds the colour it
\* held before, and every stone of colour c that was on the board is still there.
C21_PlacementFrame ==
    (call.op = "placeStone" /\ call.ok) =>
        LET after == heap[call.board]
        IN /\ after.size = CallBefore.size
           /\ ColourAt(after, call.position) = call.color
           /\ \A q \in Cells(CallBefore) \ ({call.position} \cup CallDead) :
                 ColourAt(after, q) = ColourAt(CallBefore, q)
           /\ \A q \in Cells(CallBefore) :
                 ColourAt(CallBefore, q) = call.color => ColourAt(after, q) = call.color

\* C21 witness: a capturing placement on a board where a stone of colour c
\* stands outside p and an empty cell stays empty
C21_Witness ==
    /\ call.op = "placeStone"
    /\ call.ok
    /\ CallDead # {}
    /\ \E q, r \in Cells(CallBefore) \ ({call.position} \cup CallDead) :
          /\ ColourAt(CallBefore, q) = call.color
          /\ ColourAt(heap[call.board], q) = call.color
          /\ ColourAt(CallBefore, r) = "empty"
          /\ ColourAt(heap[call.board], r) = "empty"

---------------------------------------------------------------------------
(* Board.getGroup, under SpecGroup *)

\* C22: getGroup(p) returns the cells of the maximal orthogonally connected
\* same-colour set containing p, each cell once; the empty list when p is empty
\* or outside the board; and its loop ends within 1 + 4 * size * size iterations.
C22_GroupIsComponent ==
    call.op = "getGroup" =>
        LET b == heap[call.this]
        IN /\ heap = call.before
           /\ IF call.position \notin Cells(b) THEN call.result = <<>>
              ELSE IF ColourAt(b, call.position) = "empty" THEN call.result = <<>>
              ELSE /\ {call.result[i] : i \in DOMAIN call.result}
                         = Component(b, call.position)
                   /\ Len(call.result) = Cardinality(Component(b, call.position))
           /\ call.iterations <= 1 + 4 * b.size * b.size

\* C22 witness: a group of three stones that bends, next to a stone of the
\* other colour
C22_Witness ==
    /\ call.op = "getGroup"
    /\ Len(call.result) = 3
    /\ \E i, j \in DOMAIN call.result :
          call.result[i].x # call.result[j].x /\ call.result[i].y # call.result[j].y
    /\ \E q \in Cells(heap[call.this]) :
          ColourAt(heap[call.this], q) = Opponent(GetStone(heap[call.this], call.position))
    /\ call.iterations > 3

---------------------------------------------------------------------------
(* applyMovesWithSnapshots, under SpecSnapshots *)

\* the replays of the lists made of the first 0, 1, ..., n moves, with no
\* selection: each one continues the one before it by one loop body
RECURSIVE PrefixReplays(_, _, _)
PrefixReplays(st, i, n) ==
    IF i > n THEN <<st>>
    ELSE <<st>> \o PrefixReplays(LoopBody(st, moves[i]), i + 1, n)

\* C23: applyMovesWithSnapshots returns min(maxIndex, moves.length) + 1 results
\* (moves.length + 1 without maxIndex); the result at index i is the replay of
\* the first i moves: the same grid, applied moves and overwritten-label
\* records; result 0 is the initial board itself with no applied moves.
C23_SnapshotsArePrefixReplays ==
    call.op = "applyMovesWithSnapshots" =>
        LET n == Len(moves)
            count == IF moveIndex = <<>> THEN n + 1
                     ELSE (IF moveIndex[1] < n THEN moveIndex[1] ELSE n) + 1
        IN /\ Len(call.result) = count
           /\ \E refs \in {PrefixReplays(ApplyMoves(call.before, currentBoard, <<>>,
                                                    <<>>, <<>>), 1, count - 1)} :
                 \A i \in 0..(count - 1) :
                    LET ref == refs[i + 1]
                        snapshot == call.result[i + 1]
                    IN /\ heap[snapshot.board] = ref.heap[ref.currentBoard]
                       /\ snapshot.appliedMoves = ref.appliedMoves
                       /\ snapshot.overwrittenLabels = ref.overwrittenLabels
           /\ call.result[1].board = currentBoard
           /\ call.result[1].appliedMoves = <<>>
           /\ heap[currentBoard] = call.before[currentBoard]

\* C23 witness: a maxIndex below the length of the list, whose last snapshot
\* has skipped a move and holds a board other than the initial one
C23_Witness ==
    /\ call.op = "applyMovesWithSnapshots"
    /\ moveIndex # <<>>
    /\ moveIndex[1] < Len(moves)
    /\ Len(call.result) = 3
    /\ Len(call.result[3].appliedMoves) = 1
    /\ call.result[3].board # currentBoard
    /\ call.result[2].board # call.result[3].board

---------------------------------------------------------------------------
(* Failed placements in applyMoves, under SpecConvert *)

\* C24: when the placement of a move fails, the current board, appliedMoves
\* and the ownership map are what they were before the move was processed; so
\* once a selected move has failed, the board, the list and the map reached
\* are those of the replay of the applied moves alone, the failed moves absent
\* from the list.
C24_FailedPlacementChangesNothing ==
    (mode = "convert" /\ pc = "loop") =>
        /\ step.kind = "skipped" =>
              /\ currentBoard = step.currentBoard
              /\ Current = StepBefore
              /\ appliedMoves = step.appliedMoves
              /\ movePositionMap = step.movePositionMap
        /\ Len(appliedMoves) < done =>
              \E ref \in {LoopFrom(EntryState, appliedMoves, 1)} :
                 /\ ref.appliedMoves = appliedMoves
                 /\ ref.heap[ref.currentBoard] = Current
                 /\ ref.movePositionMap = movePositionMap

\* C24 witness: a placement has just failed on a board that holds a stone,
\* failures of two kinds have happened, and a move was applied after a failed one
C24_Witness ==
    /\ mode = "convert"
    /\ pc = "loop"
    /\ step.kind = "skipped"
    /\ movePositionMap # EmptyMap
    /\ Cardinality(caught) >= 2
    /\ moveRange = <<>> /\ moveIndex = <<>>
    /\ \E i \in SkippedMoves :
          \E a \in DOMAIN appliedMoves : appliedMoves[a].moveNumber > i

---------------------------------------------------------------------------
(* The caption drawn by renderDiagram, under SpecSelect *)

---------------------------------------------------------------------------
(* The life of a DiagramRenderer, under SpecRenderer *)

C26_States ==
    /\ call.op = "createDiagramRenderer" => ~IsInitialized(renderer)
    /\ (call.op = "renderDiagram" /\ ~IsInitialized(call.before)) =>
          /\ ~call.result.ok
          /\ call.result.errorType = "RenderError"
          /\ call.result.error = ErrNotInitialized
          /\ call.result.boards = 0
          /\ renderer = call.before
    /\ (call.op = "initialize" /\ call.phase = "settled" /\ call.ok) =>
          IsInitialized(renderer)
    /\ (call.op = "initialize" /\ call.phase = "returned at once") =>
          /\ IsInitialized(call.before)
          /\ call.ok
          /\ renderer = call.before

C26_Steps ==
    /\ (renderer.made /\ IsInitialized(renderer)) =>
          (renderer'.made /\ IsInitialized(renderer'))
    /\ (renderer.made /\ IsInitialized(renderer) /\ call'.op = "initialize"
           /\ call'.phase # "settled") =>
          /\ call'.ok
          /\ call'.phase = "returned at once"
          /\ renderer' = renderer
          /\ heap' = heap
    /\ (call'.op = "renderDiagram" /\ ~IsInitialized(call'.before)) =>
          /\ renderer' = renderer
          /\ heap' = heap /\ heap = <<>>

\* C26: a DiagramRenderer starts uninitialized; renderDiagram on a renderer
\* whose initialize has not completed fails with the RenderError
\* 'DiagramRenderer not initialized', makes no board and changes nothing; once
\* an initialize has completed isInitialized is true in every later state, and an
\* initialize call made after that succeeds at once and changes nothing.
C26_InitializationLifecycle == [](C26_States) /\ [][C26_Steps]_vars

\* C26 witness: on an initialized renderer that has rendered a diagram, a
\* further initialize call has returned while an earlier one still waits
C26_Witness ==
    /\ mode = "render"
    /\ renderer.made
    /\ IsInitialized(renderer)
    /\ heap # <<>>
    /\ renderer.pending > 0
    /\ call.op = "initialize"
    /\ call.phase = "returned at once"

---------------------------------------------------------------------------
(* Boards reached by successful placements, under SpecPlacements *)

\* the stones joined to an empty cell through stones of their own colour
RECURSIVE Alive(_, _)
Alive(b, S) ==
    LET T == S \cup {q \in Cells(b) :
                        \E p \in S : Adjacent(p, q) /\ ColourAt(b, q) = ColourAt(b, p)}
    IN IF T = S THEN S ELSE Alive(b, T)

Stones(b) == {q \in Cells(b) : ColourAt(b, q) # "empty"}

WithEmptyNeighbour(b) ==
    {q \in Stones(b) : \E e \in Cells(b) : Adjacent(q, e) /\ ColourAt(b, e) = "empty"}

\* C27: every board reached from the empty board by successful placeStone
\* calls has no group without a liberty: every stone is joined through its own
\* colour to a stone with an empty neighbour, so the board is never full.
C27_NoGroupWithoutLiberty ==
    mode = "placements" =>
        /\ Alive(heap[1], WithEmptyNeighbour(heap[1])) = Stones(heap[1])
        /\ Stones(heap[1]) # Cells(heap[1])

\* C27 witness: a placement that would have filled the last empty cell of a
\* board of four cells has just been refused as a suicide
C27_Witness ==
    /\ mode = "placements"
    /\ Cardinality(Cells(heap[1]) \ Stones(heap[1])) = 1
    /\ Cardinality(Cells(heap[1])) = 4
    /\ call.op = "placeStone"
    /\ ~call.ok
    /\ call.error = ErrSuicide

---------------------------------------------------------------------------
(* The ownership map in a replay, under SpecObjects *)

\* the number of the last applied move played on q
LastAppliedAt(q) ==
    LET at == {i \in DOMAIN appliedMoves : appliedMoves[i].position = q}
    IN appliedMoves[CHOOSE i \in at : \A j \in at : j <= i].moveNumber

\* C28: after each processed move of a replay started on the empty board, the
\* keys of the ownership map are the occupied cells of the current board and
\* the value of a cell is the moveNumber of the applied move that placed the
\* stone standing on it; no empty cell has an entry.
C28_MapIsOccupiedCells ==
    mode = "replay" =>
        /\ DOMAIN movePositionMap = {PosKey(q) : q \in Stones(Current)}
        /\ \A q \in Stones(Current) :
              /\ \E a \in DOMAIN appliedMoves : appliedMoves[a].position = q
              /\ movePositionMap[PosKey(q)] = LastAppliedAt(q)
              /\ \E a \in DOMAIN appliedMoves :
                    /\ appliedMoves[a].moveNumber = movePositionMap[PosKey(q)]
                    /\ appliedMoves[a].color = ColourAt(Current, q)

\* C28 witness: a stone was captured and a later move was applied on its cell;
\* the cell carries the number of the later move while two other cells hold
\* stones of their own
C28_Witness ==
    /\ mode = "replay"
    /\ Cardinality(DOMAIN movePositionMap) = 3
    /\ \E i, j \in DOMAIN appliedMoves :
          /\ i < j
          /\ ~IsPass(appliedMoves[i])
          /\ appliedMoves[i].position = appliedMoves[j].position
          /\ movePositionMap[PosKey(appliedMoves[j].position)] = appliedMoves[j].moveNumber
          /\ \E r \in DOMAIN overwrittenLabels :
                /\ overwrittenLabels[r].position = appliedMoves[i].position
                /\ overwrittenLabels[r].originalMove = appliedMoves[i].moveNumber

---------------------------------------------------------------------------
(* The list of overwritten-label records, under Spec *)

\* C29: every record has originalMove below overwrittenByMove, the records are
\* in non-decreasing order of overwrittenByMove, and every overwrittenByMove is
\* the number of a move in appliedMoves.
C29_RecordsNameAppliedMoves ==
    mode = "replay" =>
        /\ \A r \in DOMAIN overwrittenLabels :
              /\ overwrittenLabels[r].originalMove < overwrittenLabels[r].overwrittenByMove
              /\ \E a \in DOMAIN appliedMoves :
                    appliedMoves[a].moveNumber = overwrittenLabels[r].overwrittenByMove
        /\ \A r, t \in DOMAIN overwrittenLabels :
              r < t => overwrittenLabels[r].overwrittenByMove
                          <= overwrittenLabels[t].overwrittenByMove

\* C30: in the records of a replay started on the empty board each
\* originalMove appears at most once.
C30_OriginalMoveReportedOnce ==
    mode = "replay" =>
        \A r, t \in DOMAIN overwrittenLabels :
            overwrittenLabels[r].originalMove = overwrittenLabels[t].originalMove => r = t

====
